---- MODULE Spec2Model ----
(***************************************************************************)
(* Model of src/sora_runner.py: a single-threaded script that drives a     *)
(* remote browser through launch, authentication, prompt entry, submission *)
(* and the generation wait, and reports through stdout markers and the     *)
(* process exit code.                                                      *)
(*                                                                         *)
(* The browser is the environment: every call into it either returns or    *)
(* raises, and which of the two is chosen nondeterministically (\E) at the *)
(* call.  The answers the browser gives for one element (the prompt field, *)
(* the submit button, the loading indicator) are recorded in the state so  *)
(* that properties can speak about what a method "would" have done.        *)
(*                                                                         *)
(* Not modelled: a failing write to stdout/stderr, and signals (Ctrl-C),   *)
(* which are BaseExceptions the script's handlers do not catch.            *)
(***************************************************************************)
EXTENDS Integers, Sequences, FiniteSets, TLC

VARIABLES
    pc,          \* position of the control thread in main
    argv,        \* the command line: [help, prompt, headless]
    environ,     \* SELENIUM_HEADLESS: [set, val]
    dirExists,   \* the profile directory exists on disk
    headless,    \* main's local `headless`
    chromeArgs,  \* arguments build_chrome_options added
    browser,     \* the remote browser process: "none", "running", "closed"
    driver,      \* main's local `driver`: "unbound" or "bound"
    navs,        \* URLs handed to driver.get, in order
    t,           \* ensure_auth: time.time() minus the time the deadline was set
    polls,       \* ensure_auth: iterations of the login loop made by the running call
    auth,        \* ensure_auth: what find_elements gave and how the login loop ended
    calls,       \* workflow functions invoked by main, in order
    rets,        \* what each workflow function returned
    textarea,    \* the browser's answers to type_prompt
    button,      \* the browser's answers to click_create / click_button_robustly
    clicks,      \* steps click_button_robustly attempted, in order
    indicator,   \* the browser's answers to wait_generation_complete
    stdout,      \* lines written to standard output
    stderr,      \* messages written to standard error
    quitCalls,   \* number of calls of driver.quit
    opsAfterQuit,\* a driver operation other than quit happened after quit
    result,      \* how main's body ended: [kind, code]
    exitCode     \* the process exit status, meaningful once pc = "exited"

vars == <<pc, argv, environ, dirExists, headless, chromeArgs, browser, driver,
          navs, t, polls, auth, calls, rets, textarea, button, clicks, indicator,
          stdout, stderr, quitCalls, opsAfterQuit, result, exitCode>>

----------------------------------------------------------------------------
(* Program constants *)

LOGIN_DEADLINE == 120       \* line 106: deadline = time.time() + 120
LOGIN_SLEEP == 3            \* line 108: time.sleep(3)

BASE == "https://sora.chatgpt.com/"
CHAT == "https://chat.openai.com/"

----------------------------------------------------------------------------
(* Strings whose content the program inspects are sequences of characters *)

LowerChar(c) ==
    CASE c = "T" -> "t"
      [] c = "R" -> "r"
      [] c = "U" -> "u"
      [] c = "E" -> "e"
      [] c = "F" -> "f"
      [] c = "A" -> "a"
      [] c = "L" -> "l"
      [] c = "S" -> "s"
      [] c = "Y" -> "y"
      [] OTHER -> c

\* str.lower()
Lower(s) == [i \in DOMAIN s |-> LowerChar(s[i])]

StrTrue == <<"t", "r", "u", "e">>
StrFalse == <<"f", "a", "l", "s", "e">>

\* Values of SELENIUM_HEADLESS the model draws from
EnvValues ==
    { StrTrue,
      <<"T", "R", "U", "E">>,
      <<"T", "r", "u", "e">>,
      StrFalse,
      <<" ", "t", "r", "u", "e">>,
      <<"1">>,
      <<>> }

\* os.getenv(name, default)
GetEnv(e, default) == IF e.set THEN e.val ELSE default

\* main, line 183
HeadlessEnv(e) == Lower(GetEnv(e, StrFalse)) = StrTrue

\* main, line 184
HeadlessBoth(flag, e) == flag /\ HeadlessEnv(e)
Headless(flag, e) == flag \/ HeadlessEnv(e)

\* build_chrome_options: the arguments added to the browser configuration
BuildChromeOptions(h) ==
    { "--user-data-dir", "--profile-directory=Default", "--no-sandbox",
      "--disable-dev-shm-usage", "--disable-features=VizDisplayCompositor",
      "--disable-web-security" }
    \cup (IF h THEN { "--headless=new" } ELSE {})

----------------------------------------------------------------------------
(* Outcomes of calls into the browser *)

WaitOutcomes == { "ok", "timeout", "error" }   \* WebDriverWait.until: returns, TimeoutException, other exception

\* safe_get: True only when driver.get and the readyState wait both return
SafeGet(getOk, waitOut) == getOk /\ waitOut = "ok"

\* safe_get, lines 50-55: driver.get and the wait are both inside the try, and
\* except Exception turns either failure into the return value False
SafeGetRaisesOnGet(getOk, waitOut) == ~getOk
SafeGetRaises(getOk, waitOut) == FALSE

\* The page titles the model draws from; None is the title of a page without one
Titles == { "ChatGPT", "Log in", "", "None" }

\* ensure_auth, line 109: "ChatGPT" in (driver.title or "")
TitleSignalsLogin(title) == title = "ChatGPT"

\* ensure_auth, line 107: while time.time() < deadline
LoginLoopNeverExpires(elapsed) == elapsed < elapsed + LOGIN_DEADLINE
LoginLoopContinues(elapsed) == elapsed < LOGIN_DEADLINE

\* type_prompt: e = [wait, clear, send]
TypePrompt(e) ==
    IF e.wait = "timeout" THEN [ ret |-> FALSE, err |-> <<"Textarea not found">> ]
    ELSE IF e.wait = "error" \/ ~e.clear \/ ~e.send
         THEN [ ret |-> FALSE, err |-> <<"Failed to type prompt">> ]
    ELSE [ ret |-> TRUE, err |-> <<>> ]

TextareaAnswers == [ wait : WaitOutcomes, clear : BOOLEAN, send : BOOLEAN ]
NoTextarea == [ wait |-> "none", clear |-> FALSE, send |-> FALSE ]

\* click_button_robustly: b says, for each step, whether the browser performs
\* it (TRUE) or raises (FALSE).  Returns the result and the steps attempted.
ClickMethods == << "native", "move", "script", "dispatch" >>

ClickButtonRobustlyKeepsClicking(b) ==
    IF ~b.scroll THEN [ ret |-> FALSE, steps |-> <<"scroll">> ]
    ELSE [ ret |-> b.native \/ b.move \/ b.script \/ b.dispatch,
           steps |-> <<"scroll", "hover", "native", "move", "script", "dispatch">> ]
ClickButtonRobustlyNoFallback(b) ==
    IF ~b.scroll THEN [ ret |-> FALSE, steps |-> <<"scroll">> ]
    ELSE [ ret |-> b.native, steps |-> <<"scroll", "hover", "native">> ]
ClickButtonRobustly(b) ==
    IF ~b.scroll THEN [ ret |-> FALSE, steps |-> <<"scroll">> ]
    ELSE IF b.native THEN [ ret |-> TRUE, steps |-> <<"scroll", "hover", "native">> ]
    ELSE IF b.move THEN [ ret |-> TRUE, steps |-> <<"scroll", "hover", "native", "move">> ]
    ELSE IF b.script
         THEN [ ret |-> TRUE, steps |-> <<"scroll", "hover", "native", "move", "script">> ]
    ELSE [ ret |-> b.dispatch,
           steps |-> <<"scroll", "hover", "native", "move", "script", "dispatch">> ]

ButtonAnswers ==
    [ wait : WaitOutcomes, scroll : BOOLEAN, hover : BOOLEAN, native : BOOLEAN,
      move : BOOLEAN, script : BOOLEAN, dispatch : BOOLEAN ]
NoButton ==
    [ wait |-> "none", scroll |-> FALSE, hover |-> FALSE, native |-> FALSE,
      move |-> FALSE, script |-> FALSE, dispatch |-> FALSE ]

\* click_create: b.wait is the outcome of the wait for the button
ClickCreate(b) ==
    IF b.wait = "timeout"
    THEN [ ret |-> FALSE, steps |-> <<>>, err |-> <<"Create video button not found">> ]
    ELSE IF b.wait = "error"
    THEN [ ret |-> FALSE, steps |-> <<>>, err |-> <<"Failed to click create">> ]
    ELSE [ ret |-> ClickButtonRobustly(b).ret, steps |-> ClickButtonRobustly(b).steps,
           err |-> <<>> ]

\* wait_generation_complete: i = [appear, disappear], the outcomes of the two waits
WaitGenerationCompleteNeedsSpinner(i) ==
    IF i.appear = "error" THEN [ ret |-> FALSE, err |-> <<"Error waiting for generation">> ]
    ELSE IF i.appear = "timeout" \/ i.disappear = "timeout"
         THEN [ ret |-> FALSE, err |-> <<"Generation did not finish within timeout">> ]
    ELSE IF i.disappear = "error"
         THEN [ ret |-> FALSE, err |-> <<"Error waiting for generation">> ]
    ELSE [ ret |-> TRUE, err |-> <<>> ]
WaitGenerationCompleteSwallowsTimeout(i) ==
    IF i.appear = "error" \/ i.disappear = "error"
    THEN [ ret |-> FALSE, err |-> <<"Error waiting for generation">> ]
    ELSE [ ret |-> TRUE, err |-> <<>> ]
WaitGenerationComplete(i) ==
    IF i.appear = "error" THEN [ ret |-> FALSE, err |-> <<"Error waiting for generation">> ]
    ELSE IF i.disappear = "timeout"
         THEN [ ret |-> FALSE, err |-> <<"Generation did not finish within timeout">> ]
    ELSE IF i.disappear = "error"
         THEN [ ret |-> FALSE, err |-> <<"Error waiting for generation">> ]
    ELSE [ ret |-> TRUE, err |-> <<>> ]

IndicatorAnswers == [ appear : WaitOutcomes, disappear : WaitOutcomes ]
NoIndicator == [ appear |-> "none", disappear |-> "none" ]

----------------------------------------------------------------------------
(* State *)

\* ensure_auth: imgs is what find_elements gave ("unseen" before the call),
\* login is how the login loop ended ("none" while it has not)
NoAuth == [ imgs |-> "unseen", login |-> "none" ]

Steps == { "ensure_auth", "type_prompt", "click_create", "wait_generation_complete" }

NoResult == [ kind |-> "none", code |-> 0 ]
Return(n) == [ kind |-> "return", code |-> n ]
Raise == [ kind |-> "raise", code |-> 0 ]

Init ==
    /\ pc = "parse_args"
    /\ argv \in [ help : BOOLEAN, prompt : BOOLEAN, headless : BOOLEAN ]
    /\ environ \in ({ [ set |-> FALSE, val |-> <<>> ] }
                    \cup { [ set |-> TRUE, val |-> v ] : v \in EnvValues })
    /\ dirExists \in BOOLEAN
    /\ headless = FALSE
    /\ chromeArgs = {}
    /\ browser = "none"
    /\ driver = "unbound"
    /\ navs = <<>>
    /\ t = 0
    /\ polls = 0
    /\ auth = NoAuth
    /\ calls = <<>>
    /\ rets = [ s \in Steps |-> "none" ]
    /\ textarea = NoTextarea
    /\ button = NoButton
    /\ clicks = <<>>
    /\ indicator = NoIndicator
    /\ stdout = <<>>
    /\ stderr = <<>>
    /\ quitCalls = 0
    /\ opsAfterQuit = FALSE
    /\ result = NoResult
    /\ exitCode = 0

\* A driver operation other than quit: recorded when it follows a quit
DriverOp == opsAfterQuit' = (opsAfterQuit \/ quitCalls > 0)

Say(out, lines) == out \o lines

----------------------------------------------------------------------------
(* main, before the browser exists *)

\* line 177: parse_args.  -h prints the usage and exits 0; a missing --prompt
\* (required=True) reports a usage error and exits 2.
ParseArgs ==
    /\ pc = "parse_args"
    /\ IF argv.help
       THEN /\ stdout' = Say(stdout, <<"usage">>)
            /\ exitCode' = 0
            /\ pc' = "exited"
            /\ UNCHANGED stderr
       ELSE IF ~argv.prompt
       THEN /\ stderr' = Say(stderr, <<"error: the following arguments are required: --prompt">>)
            /\ exitCode' = 2
            /\ pc' = "exited"
            /\ UNCHANGED stdout
       ELSE /\ pc' = "ensure_dir"
            /\ UNCHANGED <<stdout, stderr, exitCode>>
    /\ UNCHANGED <<argv, auth, environ, dirExists, headless, chromeArgs, browser, driver,
                   navs, t, polls, calls, rets, textarea, button, clicks, indicator,
                   quitCalls, opsAfterQuit, result>>

\* lines 179-181: ensure_dir(session_dir).  mkdir(exist_ok=True) on an existing
\* directory returns; creating it may raise, and nothing catches that.
EnsureDir ==
    /\ pc = "ensure_dir"
    /\ \E ok \in BOOLEAN :
         IF ok \/ dirExists
         THEN /\ dirExists' = TRUE
              /\ pc' = "headless"
              /\ UNCHANGED <<stderr, exitCode>>
         ELSE /\ stderr' = Say(stderr, <<"Traceback">>)
              /\ exitCode' = 1
              /\ pc' = "exited"
              /\ UNCHANGED dirExists
    /\ UNCHANGED <<argv, auth, environ, headless, chromeArgs, browser, driver,
                   navs, t, polls, calls, rets, textarea, button, clicks, indicator,
                   stdout, quitCalls, opsAfterQuit, result>>

\* lines 183-184
ComputeHeadless ==
    /\ pc = "headless"
    /\ headless' = Headless(argv.headless, environ)
    /\ pc' = "create_driver"
    /\ UNCHANGED <<argv, auth, environ, dirExists, chromeArgs, browser, driver,
                   navs, t, polls, calls, rets, textarea, button, clicks, indicator,
                   stdout, stderr, quitCalls, opsAfterQuit, result, exitCode>>

\* lines 186-190 with create_driver (41-46): webdriver.Chrome may raise, and
\* so may set_script_timeout on the browser that was just started.
LaunchOutcomes == { "ok", "chrome_raises", "set_script_timeout_raises" }

CreateDriver ==
    /\ pc = "create_driver"
    /\ chromeArgs' = BuildChromeOptions(headless)
    /\ \E out \in LaunchOutcomes :
         /\ browser' = IF out = "chrome_raises" THEN browser ELSE "running"
         /\ IF out = "ok"
            THEN /\ driver' = "bound"
                 /\ pc' = "ensure_auth"
                 /\ UNCHANGED <<stderr, result>>
            ELSE /\ stderr' = Say(stderr, <<"Failed to start Chrome">>)
                 /\ result' = Return(1)
                 /\ pc' = "exit"
                 /\ UNCHANGED driver
    /\ UNCHANGED <<argv, auth, environ, dirExists, headless, navs, t, polls, calls, rets,
                   textarea, button, clicks, indicator, stdout, quitCalls,
                   opsAfterQuit, exitCode>>

----------------------------------------------------------------------------
(* ensure_auth, lines 96-112, called at line 193 *)

Nav(url, getOk, waitOut) == [ url |-> url, ret |-> SafeGet(getOk, waitOut) ]

\* lines 98-106: first visit, the image test, and the move to the identity provider
EnsureAuth ==
    /\ pc = "ensure_auth"
    /\ calls' = Append(calls, "ensure_auth")
    /\ DriverOp
    /\ \E g1 \in BOOLEAN, w1 \in WaitOutcomes, imgs \in { "some", "none", "raises" } :
         IF SafeGetRaises(g1, w1)
         THEN /\ navs' = Append(navs, Nav(BASE, g1, w1))
              /\ rets' = [ rets EXCEPT !["ensure_auth"] = "raised" ]
              /\ result' = Raise
              /\ pc' = "finally"
              /\ UNCHANGED <<t, auth>>
         ELSE
         CASE imgs = "raises" ->
                /\ navs' = Append(navs, Nav(BASE, g1, w1))
                /\ auth' = [ auth EXCEPT !.imgs = imgs ]
                /\ rets' = [ rets EXCEPT !["ensure_auth"] = "raised" ]
                /\ result' = Raise
                /\ pc' = "finally"
                /\ UNCHANGED t
           [] imgs = "some" ->
                /\ navs' = Append(navs, Nav(BASE, g1, w1))
                /\ auth' = [ auth EXCEPT !.imgs = imgs ]
                /\ rets' = [ rets EXCEPT !["ensure_auth"] = "returned" ]
                /\ pc' = "type_prompt"
                /\ UNCHANGED <<t, result>>
           [] imgs = "none" ->
                /\ auth' = [ auth EXCEPT !.imgs = imgs ]
                /\ \E g2 \in BOOLEAN, w2 \in WaitOutcomes :
                     /\ navs' = navs \o << Nav(BASE, g1, w1), Nav(CHAT, g2, w2) >>
                     /\ IF SafeGetRaises(g2, w2)
                        THEN /\ rets' = [ rets EXCEPT !["ensure_auth"] = "raised" ]
                             /\ result' = Raise
                             /\ pc' = "finally"
                             /\ UNCHANGED t
                        ELSE /\ t' = 0
                             /\ pc' = "login_poll"
                             /\ UNCHANGED <<rets, result>>
    /\ UNCHANGED <<argv, environ, dirExists, headless, chromeArgs, browser, driver,
                   polls, textarea, button, clicks, indicator,
                   stdout, stderr, quitCalls, exitCode>>

\* lines 107-110: one iteration of the login loop.  The sleep is taken to last
\* exactly LOGIN_SLEEP.
LoginPoll ==
    /\ pc = "login_poll"
    /\ LoginLoopContinues(t)
    /\ t' = t + LOGIN_SLEEP
    /\ polls' = polls + 1
    /\ DriverOp
    /\ \E title \in Titles \cup { "raises" } :
         IF title = "raises"
         THEN /\ auth' = [ auth EXCEPT !.login = "raises" ]
              /\ rets' = [ rets EXCEPT !["ensure_auth"] = "raised" ]
              /\ result' = Raise
              /\ pc' = "finally"
         ELSE IF TitleSignalsLogin(title)
         THEN /\ auth' = [ auth EXCEPT !.login = "seen" ]
              /\ pc' = "auth_return"
              /\ UNCHANGED <<rets, result>>
         ELSE /\ pc' = "login_poll"
              /\ UNCHANGED <<auth, rets, result>>
    /\ UNCHANGED <<argv, environ, dirExists, headless, chromeArgs, browser, driver,
                   navs, calls, textarea, button, clicks, indicator,
                   stdout, stderr, quitCalls, exitCode>>

\* line 107: the deadline has passed
LoginDeadline ==
    /\ pc = "login_poll"
    /\ ~LoginLoopContinues(t)
    /\ auth' = [ auth EXCEPT !.login = "expired" ]
    /\ pc' = "auth_return"
    /\ UNCHANGED <<argv, environ, dirExists, headless, chromeArgs, browser, driver,
                   navs, t, polls, calls, rets, textarea, button, clicks, indicator,
                   stdout, stderr, quitCalls, opsAfterQuit, result, exitCode>>

\* lines 111-112: back to the target application; the locals of ensure_auth end
AuthReturnOnlyAfterLogin ==
    /\ pc = "auth_return"
    /\ DriverOp
    /\ IF auth.login = "seen"
       THEN \E g \in BOOLEAN, w \in WaitOutcomes : navs' = Append(navs, Nav(BASE, g, w))
       ELSE UNCHANGED navs
    /\ rets' = [ rets EXCEPT !["ensure_auth"] = "returned" ]
    /\ t' = 0
    /\ polls' = 0
    /\ pc' = "type_prompt"
    /\ UNCHANGED <<argv, auth, environ, dirExists, headless, chromeArgs, browser, driver,
                   calls, textarea, button, clicks, indicator,
                   stdout, stderr, quitCalls, result, exitCode>>
AuthReturn ==
    /\ pc = "auth_return"
    /\ DriverOp
    /\ \E g \in BOOLEAN, w \in WaitOutcomes :
         /\ navs' = Append(navs, Nav(BASE, g, w))
         /\ IF SafeGetRaises(g, w)
            THEN /\ rets' = [ rets EXCEPT !["ensure_auth"] = "raised" ]
                 /\ result' = Raise
                 /\ pc' = "finally"
            ELSE /\ rets' = [ rets EXCEPT !["ensure_auth"] = "returned" ]
                 /\ pc' = "type_prompt"
                 /\ UNCHANGED result
    /\ t' = 0
    /\ polls' = 0
    /\ UNCHANGED <<argv, auth, environ, dirExists, headless, chromeArgs, browser, driver,
                   calls, textarea, button, clicks, indicator,
                   stdout, stderr, quitCalls, exitCode>>

----------------------------------------------------------------------------
(* main, lines 192-204: the body of the try statement *)

\* lines 194-195: if not type_prompt(...): return 2
OnTypePromptIgnored(ok) ==
    [ pc |-> "click_create", result |-> NoResult ]
OnTypePrompt(ok) ==
    IF ok THEN [ pc |-> "click_create", result |-> NoResult ]
    ELSE [ pc |-> "finally", result |-> Return(2) ]

\* lines 196-197: if not click_create(...): return 3
OnClickCreateRetry(ok) ==
    IF ok THEN [ pc |-> "print_waiting", result |-> NoResult ]
    ELSE [ pc |-> "type_prompt", result |-> NoResult ]
OnClickCreateIgnored(ok) ==
    [ pc |-> "print_waiting", result |-> NoResult ]
OnClickCreate(ok) ==
    IF ok THEN [ pc |-> "print_waiting", result |-> NoResult ]
    ELSE [ pc |-> "finally", result |-> Return(3) ]

\* lines 201-202: if not ok: return 4
OnWaitGenerationIgnored(ok) ==
    [ pc |-> "print_done", result |-> NoResult ]
OnWaitGeneration(ok) ==
    IF ok THEN [ pc |-> "print_done", result |-> NoResult ]
    ELSE [ pc |-> "finally", result |-> Return(4) ]

\* line 194
MainTypePrompt ==
    /\ pc = "type_prompt"
    /\ calls' = Append(calls, "type_prompt")
    /\ DriverOp
    /\ \E e \in TextareaAnswers :
         /\ textarea' = e
         /\ rets' = [ rets EXCEPT !["type_prompt"] =
                        IF TypePrompt(e).ret THEN "true" ELSE "false" ]
         /\ stderr' = Say(stderr, TypePrompt(e).err)
         /\ pc' = OnTypePrompt(TypePrompt(e).ret).pc
         /\ result' = OnTypePrompt(TypePrompt(e).ret).result
    /\ UNCHANGED <<argv, auth, environ, dirExists, headless, chromeArgs, browser, driver,
                   navs, t, polls, button, clicks, indicator,
                   stdout, quitCalls, exitCode>>

\* line 196
MainClickCreate ==
    /\ pc = "click_create"
    /\ calls' = Append(calls, "click_create")
    /\ DriverOp
    /\ \E b \in ButtonAnswers :
         /\ button' = b
         /\ clicks' = ClickCreate(b).steps
         /\ rets' = [ rets EXCEPT !["click_create"] =
                        IF ClickCreate(b).ret THEN "true" ELSE "false" ]
         /\ stderr' = Say(stderr, ClickCreate(b).err)
         /\ pc' = OnClickCreate(ClickCreate(b).ret).pc
         /\ result' = OnClickCreate(ClickCreate(b).ret).result
    /\ UNCHANGED <<argv, auth, environ, dirExists, headless, chromeArgs, browser, driver,
                   navs, t, polls, textarea, indicator,
                   stdout, quitCalls, exitCode>>

\* line 199
PrintWaiting ==
    /\ pc = "print_waiting"
    /\ stdout' = Say(stdout, <<"WAITING">>)
    /\ pc' = "wait_generation"
    /\ UNCHANGED <<argv, auth, environ, dirExists, headless, chromeArgs, browser, driver,
                   navs, t, polls, calls, rets, textarea, button, clicks, indicator,
                   stderr, quitCalls, opsAfterQuit, result, exitCode>>

\* lines 200-202
MainWaitGeneration ==
    /\ pc = "wait_generation"
    /\ calls' = Append(calls, "wait_generation_complete")
    /\ DriverOp
    /\ \E i \in IndicatorAnswers :
         /\ indicator' = i
         /\ rets' = [ rets EXCEPT !["wait_generation_complete"] =
                        IF WaitGenerationComplete(i).ret THEN "true" ELSE "false" ]
         /\ stderr' = Say(stderr, WaitGenerationComplete(i).err)
         /\ pc' = OnWaitGeneration(WaitGenerationComplete(i).ret).pc
         /\ result' = OnWaitGeneration(WaitGenerationComplete(i).ret).result
    /\ UNCHANGED <<argv, auth, environ, dirExists, headless, chromeArgs, browser, driver,
                   navs, t, polls, textarea, button, clicks,
                   stdout, quitCalls, exitCode>>

\* lines 203-204
PrintDoneMissing ==
    /\ pc = "print_done"
    /\ result' = Return(0)
    /\ pc' = "finally"
    /\ UNCHANGED <<argv, auth, environ, dirExists, headless, chromeArgs, browser, driver,
                   navs, t, polls, calls, rets, textarea, button, clicks, indicator,
                   stdout, stderr, quitCalls, opsAfterQuit, exitCode>>
PrintDone ==
    /\ pc = "print_done"
    /\ stdout' = Say(stdout, <<"DONE">>)
    /\ result' = Return(0)
    /\ pc' = "finally"
    /\ UNCHANGED <<argv, auth, environ, dirExists, headless, chromeArgs, browser, driver,
                   navs, t, polls, calls, rets, textarea, button, clicks, indicator,
                   stderr, quitCalls, opsAfterQuit, exitCode>>

----------------------------------------------------------------------------
(* main, lines 205-209, and the end of the process *)

\* The finally block runs however the try body ended; an exception of
\* driver.quit is swallowed, and the browser may then still be running.
FinallyQuitErrorEscapes ==
    /\ pc = "finally"
    /\ \E ok \in BOOLEAN :
         /\ quitCalls' = quitCalls + 1
         /\ browser' = IF ok THEN "closed" ELSE browser
         /\ result' = IF ok THEN result ELSE Raise
    /\ pc' = "exit"
    /\ UNCHANGED <<argv, auth, environ, dirExists, headless, chromeArgs, driver,
                   navs, t, polls, calls, rets, textarea, button, clicks, indicator,
                   stdout, stderr, opsAfterQuit, exitCode>>
FinallyOnReturnOnly ==
    /\ pc = "finally"
    /\ IF result.kind = "return"
       THEN \E ok \in BOOLEAN :
              /\ quitCalls' = quitCalls + 1
              /\ browser' = IF ok THEN "closed" ELSE browser
       ELSE UNCHANGED <<quitCalls, browser>>
    /\ pc' = "exit"
    /\ UNCHANGED <<argv, auth, environ, dirExists, headless, chromeArgs, driver,
                   navs, t, polls, calls, rets, textarea, button, clicks, indicator,
                   stdout, stderr, opsAfterQuit, result, exitCode>>
Finally ==
    /\ pc = "finally"
    /\ \E ok \in BOOLEAN :
         /\ quitCalls' = quitCalls + 1
         /\ browser' = IF ok THEN "closed" ELSE browser
    /\ pc' = "exit"
    /\ UNCHANGED <<argv, auth, environ, dirExists, headless, chromeArgs, driver,
                   navs, t, polls, calls, rets, textarea, button, clicks, indicator,
                   stdout, stderr, opsAfterQuit, result, exitCode>>

\* line 213: sys.exit(main()).  When main raised, sys.exit is not reached: the
\* interpreter prints the traceback and the process ends with status 1.
ExitStatus(r) == IF r.kind = "return" THEN r.code ELSE 1

Exit ==
    /\ pc = "exit"
    /\ exitCode' = ExitStatus(result)
    /\ stderr' = Say(stderr, IF result.kind = "raise" THEN <<"Traceback">> ELSE <<>>)
    /\ pc' = "exited"
    /\ UNCHANGED <<argv, auth, environ, dirExists, headless, chromeArgs, browser, driver,
                   navs, t, polls, calls, rets, textarea, button, clicks, indicator,
                   stdout, quitCalls, opsAfterQuit, result>>

Next ==
    \/ ParseArgs
    \/ EnsureDir
    \/ ComputeHeadless
    \/ CreateDriver
    \/ EnsureAuth
    \/ LoginPoll
    \/ LoginDeadline
    \/ AuthReturn
    \/ MainTypePrompt
    \/ MainClickCreate
    \/ PrintWaiting
    \/ MainWaitGeneration
    \/ PrintDone
    \/ Finally
    \/ Exit

Spec == Init /\ [][Next]_vars

\* One control thread that runs whenever it can: a step that is possible is taken
FairSpec == Spec /\ WF_vars(Next)

----------------------------------------------------------------------------
Exited == pc = "exited"

Range(q) == { q[i] : i \in DOMAIN q }

\* The browser was asked for: create_driver has been called
LaunchAttempted == chromeArgs # {}
\* create_driver raised instead of returning
LaunchFailed == LaunchAttempted /\ driver = "unbound"
\* The session exists and main holds it
SessionCreated == driver = "bound"

Printed(line) == line \in Range(stdout)
Invoked(step) == step \in Range(calls)

\* The lines main wrote (lines 199 and 203), without the usage text of argparse
WorkflowLines == SelectSeq(stdout, LAMBDA l : l # "usage")

----------------------------------------------------------------------------
\* C1: once create_driver has returned, driver.quit is called exactly once
\* before the process exits, never twice, and no other driver operation
\* follows it -- whichever step failed, and also when ensure_auth raised.
QuitExactlyOnce ==
    /\ quitCalls <= 1
    /\ ~opsAfterQuit
    /\ (Exited /\ SessionCreated) => quitCalls = 1
    /\ quitCalls = 1 => (SessionCreated /\ pc \in { "exit", "exited" })

\* a run in which ensure_auth raised has ended, with the session quit once
QuitAfterRaiseReached ==
    Exited /\ SessionCreated /\ rets["ensure_auth"] = "raised" /\ quitCalls = 1

\* C2: a run in which type_prompt, click_create and wait_generation_complete
\* all returned true ends with stdout exactly WAITING, DONE and exit code 0.
AllStepsTrue ==
    /\ SessionCreated
    /\ rets["type_prompt"] = "true"
    /\ rets["click_create"] = "true"
    /\ rets["wait_generation_complete"] = "true"

SuccessOutput ==
    (Exited /\ AllStepsTrue) => (stdout = <<"WAITING", "DONE">> /\ exitCode = 0)

SuccessReached == Exited /\ AllStepsTrue /\ exitCode = 0

\* C3: when the prompt field never becomes clickable, or type_prompt returns
\* false for any other reason, nothing is printed to stdout, click_create and
\* wait_generation_complete are never invoked, and the process exits with 2.
TextareaFails ==
    \/ textarea.wait \in { "timeout", "error" }
    \/ (textarea.wait = "ok" /\ (~textarea.clear \/ ~textarea.send))

PromptFailureExit2 ==
    (TextareaFails \/ rets["type_prompt"] = "false") =>
        /\ rets["type_prompt"] = "false"
        /\ ~Printed("WAITING") /\ ~Printed("DONE")
        /\ ~Invoked("click_create") /\ ~Invoked("wait_generation_complete")
        /\ Exited => exitCode = 2

PromptTimeoutReached == Exited /\ textarea.wait = "timeout" /\ exitCode = 2

\* C4: when prompt entry succeeded and the submit button never becomes
\* clickable, or click_create returns false for any other reason (a false
\* from click_button_robustly included), WAITING is not printed and the
\* process exits with 3.
SubmitFailureExit3 ==
    (rets["type_prompt"] = "true"
       /\ (button.wait \in { "timeout", "error" } \/ rets["click_create"] = "false")) =>
        /\ rets["click_create"] = "false"
        /\ ~Printed("WAITING")
        /\ Exited => exitCode = 3

SubmitTimeoutReached ==
    Exited /\ rets["type_prompt"] = "true" /\ button.wait = "timeout" /\ exitCode = 3

\* C5: when prompt entry and submission succeeded and the indicator does not
\* disappear within the timeout, or the wait raises anything else, WAITING has
\* been printed exactly once, DONE is never printed, and the process exits 4.
IndicatorFails ==
    \/ indicator.appear = "error"
    \/ indicator.disappear \in { "timeout", "error" }

WaitFailureExit4 ==
    (rets["type_prompt"] = "true" /\ rets["click_create"] = "true"
       /\ (IndicatorFails \/ rets["wait_generation_complete"] = "false")) =>
        /\ rets["wait_generation_complete"] = "false"
        /\ stdout = <<"WAITING">>
        /\ Exited => exitCode = 4

WaitTimeoutReached ==
    /\ Exited
    /\ indicator.appear = "ok" /\ indicator.disappear = "timeout"
    /\ stdout = <<"WAITING">> /\ exitCode = 4

\* C6: the exit code is one of 0..4 and names the stage: 1 exactly when the
\* launch failed, 2 exactly when prompt entry failed, 3 exactly when the
\* submission failed, 4 exactly when the generation wait failed, 0 exactly
\* when every stage succeeded.  Stated for the runs that reached the launch.
ExitCodeNamesStage ==
    (Exited /\ LaunchAttempted) =>
        /\ exitCode \in 0..4
        /\ exitCode = 1 <=> LaunchFailed
        /\ exitCode = 2 <=> rets["type_prompt"] = "false"
        /\ exitCode = 3 <=> rets["click_create"] = "false"
        /\ exitCode = 4 <=> rets["wait_generation_complete"] = "false"
        /\ exitCode = 0 <=> AllStepsTrue

\* C7: when the native click has been attempted and any of the four click
\* methods succeeds on the button, the call returns true; in particular when
\* the native click raises and a later method succeeds.
AnyClickSucceeds == \E i \in DOMAIN ClickMethods : button[ClickMethods[i]]

FallbackReportsSuccess ==
    ("native" \in Range(clicks) /\ AnyClickSucceeds) => rets["click_create"] = "true"

ScriptedClickFallbackReached ==
    /\ ~button.native /\ ~button.move /\ button.script
    /\ clicks = <<"scroll", "hover", "native", "move", "script">>
    /\ rets["click_create"] = "true"

\* C8: the browser is started headless exactly when --headless is given or
\* SELENIUM_HEADLESS is set to "true" in any letter case.
IsTrueAnyCase(s) ==
    /\ Len(s) = 4
    /\ s[1] \in { "t", "T" } /\ s[2] \in { "r", "R" }
    /\ s[3] \in { "u", "U" } /\ s[4] \in { "e", "E" }

HeadlessIffFlagOrEnv ==
    LaunchAttempted =>
        /\ headless <=> (argv.headless \/ (environ.set /\ IsTrueAnyCase(environ.val)))
        /\ ("--headless=new" \in chromeArgs) <=> headless

HeadlessByEnvReached ==
    /\ LaunchAttempted /\ ~argv.headless
    /\ environ.set /\ environ.val = <<"T", "R", "U", "E">>
    /\ "--headless=new" \in chromeArgs

\* C9: main writes nothing but WAITING and DONE, each at most once and in that
\* order; WAITING only after type_prompt and click_create returned true and
\* before wait_generation_complete starts; DONE only after
\* wait_generation_complete returned true.
StdoutProtocol ==
    /\ WorkflowLines \in { <<>>, <<"WAITING">>, <<"WAITING", "DONE">> }
    /\ Printed("WAITING") =>
          (rets["type_prompt"] = "true" /\ rets["click_create"] = "true")
    /\ Invoked("wait_generation_complete") => Printed("WAITING")
    /\ (pc = "wait_generation") =>
          (Printed("WAITING") /\ ~Invoked("wait_generation_complete"))
    /\ Printed("DONE") => rets["wait_generation_complete"] = "true"

WaitingBeforeWaitReached ==
    /\ pc = "wait_generation" /\ stdout = <<"WAITING">>
    /\ ~Invoked("wait_generation_complete")

\* C10: click_button_robustly returns false only when every one of the four
\* click methods fails on the button: a failed scroll-into-view or hover
\* alone does not make it return false while a click method would succeed.
FalseOnlyAfterAllFourFailed ==
    (button.wait = "ok" /\ rets["click_create"] = "false") => ~AnyClickSucceeds

----------------------------------------------------------------------------
IsPrefix(s, q) == Len(s) <= Len(q) /\ SubSeq(q, 1, Len(s)) = s

Workflow == << "ensure_auth", "type_prompt", "click_create", "wait_generation_complete" >>

\* How far main has come
StageOf(p) ==
    CASE p \in { "parse_args", "ensure_dir", "headless", "create_driver" } -> 0
      [] p \in { "ensure_auth", "login_poll", "auth_return" } -> 1
      [] p = "type_prompt" -> 2
      [] p = "click_create" -> 3
      [] p \in { "print_waiting", "wait_generation" } -> 4
      [] p = "print_done" -> 5
      [] p = "finally" -> 6
      [] p = "exit" -> 7
      [] OTHER -> 8

\* C11: ensure_auth, type_prompt, click_create and wait_generation_complete
\* are each invoked at most once and in that order, each only after the one
\* before it completed successfully; after a failed step no later step is
\* invoked; and main never moves back to an earlier stage.
SinglePass ==
    /\ IsPrefix(calls, Workflow)
    /\ Invoked("type_prompt") => rets["ensure_auth"] = "returned"
    /\ Invoked("click_create") => rets["type_prompt"] = "true"
    /\ Invoked("wait_generation_complete") => rets["click_create"] = "true"
    /\ \A i \in DOMAIN Workflow :
         rets[Workflow[i]] \in { "false", "raised" } => Len(calls) = i

ForwardOnly == []SinglePass /\ [][StageOf(pc') >= StageOf(pc)]_vars

AllFourInvokedReached == Exited /\ calls = Workflow

\* C12: when the indicator never appears within the appearance wait, the
\* disappearance wait still decides: the call returns true exactly when the
\* indicator is then absent, and such a run prints DONE and exits 0.
OptimisticFallback ==
    (rets["click_create"] = "true" /\ indicator.appear = "timeout") =>
        /\ rets["wait_generation_complete"] = "true" <=> indicator.disappear = "ok"
        /\ (Exited /\ indicator.disappear = "ok") =>
              (stdout = <<"WAITING", "DONE">> /\ exitCode = 0)

NeverAppearedDoneReached ==
    /\ Exited /\ indicator.appear = "timeout" /\ indicator.disappear = "ok"
    /\ Printed("DONE") /\ exitCode = 0

NavUrls == [ i \in DOMAIN navs |-> navs[i].url ]

\* C13: ensure_auth goes to the identity provider only when find_elements
\* found no image; it then checks the title every LOGIN_SLEEP for at most
\* LOGIN_DEADLINE, and whether the login was seen or the deadline passed it
\* navigates back to the target application before it returns, after which
\* main goes on to type_prompt.
AuthPolling ==
    /\ IsPrefix(NavUrls, << BASE, CHAT, BASE >>)
    /\ Len(navs) >= 2 => auth.imgs = "none"
    /\ auth.imgs \in { "some", "raises" } => NavUrls = << BASE >>
    /\ t = polls * LOGIN_SLEEP /\ t <= LOGIN_DEADLINE
    /\ auth.login = "seen" => auth.imgs = "none"
    /\ (pc = "auth_return" /\ auth.login = "expired") => t = LOGIN_DEADLINE
    /\ (rets["ensure_auth"] = "returned" /\ auth.imgs = "none") =>
          (auth.login \in { "seen", "expired" } /\ NavUrls = << BASE, CHAT, BASE >>)
    /\ rets["ensure_auth"] = "returned" => (pc = "type_prompt" \/ Invoked("type_prompt"))

BackAfterDeadlineReached ==
    /\ pc = "type_prompt" /\ rets["ensure_auth"] = "returned"
    /\ auth.login = "expired" /\ NavUrls = << BASE, CHAT, BASE >>

\* C14: every run ends with a process exit when each call into the browser
\* returns, and the login loop makes at most LOGIN_DEADLINE / LOGIN_SLEEP
\* iterations.
MaxPolls == LOGIN_DEADLINE \div LOGIN_SLEEP

EventuallyExits == <>Exited /\ [](polls <= MaxPolls)

LastPollReached == pc = "login_poll" /\ polls = MaxPolls /\ ~LoginLoopContinues(t)

\* C15: safe_get never raises, and a False from it inside ensure_auth does not
\* end the run: ensure_auth raises only when find_elements or the title read
\* raises, and after a failed navigation it still returns and main goes on to
\* type_prompt.
SomeNavFailed == \E i \in DOMAIN navs : ~navs[i].ret

OtherAuthCallRaised == auth.imgs = "raises" \/ auth.login = "raises"

SafeGetNeverFatal ==
    /\ rets["ensure_auth"] = "raised" => OtherAuthCallRaised
    /\ (SomeNavFailed /\ pc \notin { "login_poll", "auth_return" } /\ ~OtherAuthCallRaised) =>
          /\ rets["ensure_auth"] = "returned"
          /\ pc = "type_prompt" \/ Invoked("type_prompt")

PromptAfterFailedNavReached ==
    /\ Len(navs) = 1 /\ ~navs[1].ret
    /\ rets["ensure_auth"] = "returned" /\ rets["type_prompt"] = "true"

\* C16: in one call of click_button_robustly the click methods are tried in
\* the order native, move, script, dispatch, nothing is tried after the first
\* one that succeeds, so at most one click method succeeds per call; and
\* click_create is called at most once per run.
ClicksTried == SelectSeq(clicks, LAMBDA m : m \in Range(ClickMethods))

OneClickAtMost ==
    /\ IsPrefix(ClicksTried, ClickMethods)
    /\ \A i \in DOMAIN ClicksTried : i < Len(ClicksTried) => ~button[ClicksTried[i]]
    /\ Cardinality({ i \in DOMAIN ClicksTried : button[ClicksTried[i]] }) <= 1
    /\ rets["click_create"] = "true" =>
          Cardinality({ i \in DOMAIN ClicksTried : button[ClicksTried[i]] }) = 1
    /\ Cardinality({ i \in DOMAIN calls : calls[i] = "click_create" }) <= 1

StoppedAtFirstSuccessReached ==
    /\ clicks = <<"scroll", "hover", "native", "move">>
    /\ button.move /\ button.script /\ button.dispatch

\* C17: when driver.quit raises, the exception is swallowed: the exit code is
\* the one the workflow had determined (0, 2, 3 or 4) and stdout is what it
\* was before the teardown.
QuitRaised == quitCalls = 1 /\ browser = "running"

StageCode ==
    IF rets["type_prompt"] = "false" THEN 2
    ELSE IF rets["click_create"] = "false" THEN 3
    ELSE IF rets["wait_generation_complete"] = "false" THEN 4
    ELSE 0

TeardownState ==
    (Exited /\ QuitRaised /\ rets["ensure_auth"] = "returned") =>
        /\ exitCode = StageCode
        /\ exitCode = 0 => stdout = <<"WAITING", "DONE">>
        /\ exitCode = 4 => stdout = <<"WAITING">>
        /\ exitCode \in { 2, 3 } => stdout = <<>>

TeardownKeepsOutcome ==
    /\ []TeardownState
    /\ [][pc = "finally" => (stdout' = stdout /\ result' = result)]_vars

QuitRaisedExit4Reached ==
    Exited /\ QuitRaised /\ exitCode = 4 /\ stdout = <<"WAITING">>

\* C18: when the launch fails the process exits with 1 and no session exists:
\* no browser was started, no driver operation was made (no navigation, no
\* step, no quit), nothing was printed to stdout, and the profile directory
\* created before the attempt is still there.
LaunchFailureLeavesNothing ==
    (Exited /\ LaunchFailed) =>
        /\ exitCode = 1
        /\ browser = "none"
        /\ navs = <<>> /\ calls = <<>> /\ quitCalls = 0
        /\ stdout = <<>>
        /\ dirExists

====
